---- MODULE Spec2Model ----
(***************************************************************************)
(* Model of mintpy/save_roipac.py: the conversion of one MintPy HDF5       *)
(* product into a ROI_PAC raster plus attribute file.                      *)
(*                                                                         *)
(* Text is a TLA+ string, handled as a sequence of characters with Len,    *)
(* SubSeq and \o.  An attribute value is a tagged pair: <<"s", text>> for  *)
(* a Python str and <<"i", n>> for a Python int.  A raster is a function   *)
(* from the pixels <<row, col>> of a one-row grid to integers.  The factor *)
(* range2phase = -4*pi/WAVELENGTH is kept in units of pi, with wavelengths *)
(* that divide 4, so that every phase value is an exact integer.           *)
(***************************************************************************)
EXTENDS Integers, Sequences, FiniteSets, TLC

\* ------------------------------------------------------------------ bounds
\* raster samples of the stored slices range over 0..MaxVal
MaxVal == 1
\* number of epochs stored in a timeseries / HDFEOS container
NumEpochs == 3

\* ------------------------------------------------------- Python text helpers
UpperChars == "ABCDEFGHIJKLMNOPQRSTUVWXYZ"
LowerChars == "abcdefghijklmnopqrstuvwxyz"

CharAt(s, i) == SubSeq(s, i, i)

\* sub in s
Contains(s, sub) ==
    \E i \in 1..(Len(s) - Len(sub) + 1) : SubSeq(s, i, i + Len(sub) - 1) = sub

\* s.startswith(p)
StartsWith(s, p) == Len(s) >= Len(p) /\ SubSeq(s, 1, Len(p)) = p

\* s[a:b]
Slice(s, a, b) == SubSeq(s, a + 1, IF b < Len(s) THEN b ELSE Len(s))

\* position of the first occurrence of the character c in s, 0 when absent
IndexOf(s, c) ==
    IF \E i \in 1..Len(s) : CharAt(s, i) = c
    THEN CHOOSE i \in 1..Len(s) :
            /\ CharAt(s, i) = c
            /\ \A j \in 1..(i - 1) : CharAt(s, j) # c
    ELSE 0

\* position of the last occurrence of the character c in s, 0 when absent
LastIndexOf(s, c) ==
    IF \E i \in 1..Len(s) : CharAt(s, i) = c
    THEN CHOOSE i \in 1..Len(s) :
            /\ CharAt(s, i) = c
            /\ \A j \in (i + 1)..Len(s) : CharAt(s, j) # c
    ELSE 0

\* s.split(c)
RECURSIVE Split(_, _)
Split(s, c) ==
    LET i == IndexOf(s, c)
    IN  IF i = 0 THEN <<s>>
        ELSE <<SubSeq(s, 1, i - 1)>> \o Split(SubSeq(s, i + 1, Len(s)), c)

\* s.lower()
LowerChar(c) ==
    IF \E i \in 1..Len(UpperChars) : CharAt(UpperChars, i) = c
    THEN CharAt(LowerChars, CHOOSE i \in 1..Len(UpperChars) : CharAt(UpperChars, i) = c)
    ELSE c

RECURSIVE Lower(_)
Lower(s) == IF s = "" THEN "" ELSE LowerChar(Head(s)) \o Lower(Tail(s))

\* s.isupper(): at least one cased character and no lower-case character
IsUpper(s) ==
    /\ \E i \in 1..Len(s) : Contains(UpperChars, CharAt(s, i))
    /\ \A i \in 1..Len(s) : ~Contains(LowerChars, CharAt(s, i))

\* os.path.splitext(path)[0]: the path without the extension of its last component
SplitExtRoot(path) ==
    LET dot == LastIndexOf(path, ".")
        sep == LastIndexOf(path, "/")
    IN  IF dot > sep + 1 THEN SubSeq(path, 1, dot - 1) ELSE path

\* --------------------------------------------------------- attribute values
Txt(s) == <<"s", s>>
Num(n) == <<"i", n>>

\* str(value)
Str(v) == IF v[1] = "i" THEN Txt(ToString(v[2])) ELSE v

\* int(value) / float(value) of a numeric attribute
ToInt(v) == IF v[1] = "i" THEN v[2] ELSE CHOOSE n \in 0..9 : ToString(n) = v[2]

EmptyMap == [key \in {} |-> Txt("")]
Put(m, key, value) == (key :> value) @@ m
Opt(present, key, value) == IF present THEN key :> value ELSE EmptyMap

\* ------------------------------------------------------------------ rasters
Pixels == {<<0, 0>>, <<0, 1>>}
Values == 0..MaxVal
Rasters == [Pixels -> Values]
NoData == [p \in {} |-> 0]
Flat == [p \in Pixels |-> 0]

Minus(a, b) == [p \in Pixels |-> a[p] - b[p]]
Times(a, k) == [p \in Pixels |-> a[p] * k]

\* data -= data[y, x]
RefSubtract(a, yx) == [p \in Pixels |-> a[p] - a[yx]]

\* range2phase = -4 * np.pi / float(atr['WAVELENGTH']), in units of pi
Range2Phase(atr) == (0 - 4) \div ToInt(atr["WAVELENGTH"])

\* ------------------------------------------------- the external collaborators
\* ptime.yyyymmdd(date): a 6-digit date gets its century, an 8-digit one is kept
yyyymmdd(d) ==
    IF Len(d) = 6
    THEN (IF CharAt(d, 1) = "9" THEN "19" ELSE "20") \o d
    ELSE d

\* ptime.yyyymmdd(list of dates)
yyyymmddList(ds) == [i \in 1..Len(ds) |-> yyyymmdd(ds[i])]

\* the raster stored under the i-th slice of the container
RasterAt(h, i) == IF i % 2 = 1 THEN h.ra ELSE h.rb

\* position of a slice name in the slice list, 0 when absent
SliceIndex(h, name) ==
    IF \E i \in 1..Len(h.slice_list) : h.slice_list[i] = name
    THEN CHOOSE i \in 1..Len(h.slice_list) : h.slice_list[i] = name
    ELSE 0

\* readfile.read(file, datasetName=name)[0]; name = "" is datasetName=None,
\* which reads the first slice
read(h, name) ==
    LET i == IF name = "" THEN 1 ELSE SliceIndex(h, name)
    IN  IF i = 0 THEN [ok |-> FALSE, data |-> NoData]
        ELSE [ok |-> TRUE, data |-> RasterAt(h, i)]

\* view.check_dataset_input(slice_list, name)[0]: the stored slices matching name
check_dataset_input(allList, name) ==
    SelectSeq(allList, LAMBDA e : Contains(e, name))

\* ----------------------------------------------------------------- the inputs
EpochPool == <<"20040101", "20050601", "20060301", "20070115">>
DateList == SubSeq(EpochPool, 1, NumEpochs)

FileTypes ==
    {"velocity", "timeseries", "HDFEOS", "ifgramStack",
     "temporalCoherence", "mask", "geometry"}

\* the slice list of a container of type k
SliceListOf(k) ==
    CASE k = "timeseries" -> DateList
      [] k = "HDFEOS" ->
            [i \in 1..NumEpochs |-> "displacement-" \o DateList[i]]
            \o <<"temporalCoherence", "height", "mask",
                 "temporalCoherence-20040101_20050601">>
      [] k = "ifgramStack" ->
            <<"unwrapPhase-20040101_20050601",
              "unwrapPhase_bridging-20040101_20050601",
              "coherence-20040101_20050601",
              "wrapPhase-20040101_20050601",
              "connectComponent-20040101_20050601">>
      [] k = "geometry" -> <<"height", "incidenceAngle">>
      [] OTHER -> <<k>>

\* the sub-product tokens tried on a container of type k ("" is no token)
TokensFor(k) ==
    CASE k = "timeseries" ->
            {"", "20050601", "050601", "20040101_20050601", "20990101"}
      [] k = "HDFEOS" ->
            {"", "displacement", "displacement-20050601",
             "displacement-20040101_20050601", "displacement-040101_050601",
             "displacement-20990101",
             "temporalCoherence", "temporalCoherence-20040101_20050601",
             "height", "height-20040101_20050601", "mask", "bogus"}
      [] k = "ifgramStack" ->
            {"", "unwrapPhase", "unwrapPhase-20040101_20050601",
             "unwrapPhase_bridging-20040101_20050601",
             "coherence-20040101_20050601", "wrapPhase-20040101_20050601",
             "connectComponent-20040101_20050601", "connectComponent"}
      [] k = "geometry" -> {"", "height", "incidenceAngle"}
      [] OTHER -> {""}

Files == {"vel.h5", "geo_vel.h5", "in/geo_vel.h5"}
OutFiles == {"", "out/srtm1.dem"}
NoRef == <<>>
RefPixels == {NoRef} \cup Pixels
StoredRefs == {NoRef, <<0, 0>>}
\* "" is a container without WAVELENGTH
Wavelengths == {"", "1", "2"}

\* the container: its attributes, epochs, slice list and the two stored rasters
Containers ==
    { [atr |->
          ("FILE_TYPE" :> Txt(k)) @@ Opt(w # "", "WAVELENGTH", Txt(w))
          @@ ("WIDTH" :> Txt("2")) @@ ("width" :> Txt("2"))
          @@ ("Processor" :> Txt("mintpy"))
          @@ Opt(hasLen, "LENGTH", Txt("1"))
          @@ Opt(ref # NoRef, "REF_Y", Txt(ToString(ref[1])))
          @@ Opt(ref # NoRef, "REF_X", Txt(ToString(ref[2])))
          @@ Opt(hasRefDate, "REF_DATE", Txt(DateList[1]))
          @@ Opt(geocoded, "Y_FIRST", Txt("33")),
       date_list |-> IF k \in {"timeseries", "HDFEOS"} THEN DateList ELSE <<>>,
       slice_list |-> SliceListOf(k),
       ra |-> ra, rb |-> rb] :
      k \in FileTypes, w \in Wavelengths, hasLen \in BOOLEAN, ref \in StoredRefs,
      hasRefDate \in BOOLEAN, geocoded \in BOOLEAN, ra \in Rasters, rb \in Rasters }

\* the attribute combinations that matter for the container's type
Relevant(h) ==
    LET k == h.atr["FILE_TYPE"][2]
    IN  /\ ("REF_DATE" \in DOMAIN h.atr) => k \in {"timeseries", "HDFEOS"}
        /\ ("Y_FIRST" \in DOMAIN h.atr) => k = "geometry"

\* -------------------------------------------------------------------- state
VARIABLES
    h5,        \* the input container
    argv,      \* the command line: file, dset, outfile, ref_yx
    inps,      \* the parsed arguments, updated by cmd_line_parse and read_data
    pc,        \* position in main
    err,       \* the exception that ended main, "" when none
    data0,     \* read_data's raster before any reference subtraction
    data,      \* read_data's raster
    atr,       \* the working attribute mapping
    atr_in,    \* the mapping main handed to clean_metadata4roipac
    out_file,  \* read_data's output file name
    dates,     \* read_data's <<date1, date2>>, <<>> when there is no epoch pair
    ref_used,  \* pixel of the ifgramStack reference correction, <<>> when none
    reads,     \* the datasetName of every readfile.read issued, in order
    written    \* the calls of writefile.write, in order

vars == <<h5, argv, inps, pc, err, data0, data, atr, atr_in, out_file, dates, ref_used,
          reads, written>>

Init ==
    /\ h5 \in {h \in Containers : Relevant(h)}
    /\ \E f \in Files, o \in OutFiles, r \in RefPixels,
          d \in TokensFor(h5.atr["FILE_TYPE"][2]) :
          argv = [file |-> f, dset |-> d, outfile |-> o, ref_yx |-> r]
    \* the file names and the stored rasters are varied one at a time
    /\ \/ argv.file = "vel.h5" /\ argv.outfile = ""
       \/ h5.ra = Flat /\ h5.rb = Flat
    /\ inps = argv
    /\ pc = "start"
    /\ err = ""
    /\ data0 = NoData
    /\ data = NoData
    /\ atr = EmptyMap
    /\ atr_in = EmptyMap
    /\ out_file = ""
    /\ dates = <<>>
    /\ ref_used = <<>>
    /\ reads = <<>>
    /\ written = <<>>

\* ------------------------------------------------------------ cmd_line_parse
\* mutant: only the ifgramStack is refused without a dset
DefaultDset_stackOnly(args, h) ==
    LET k == h.atr["FILE_TYPE"][2]
    IN  IF args.dset # "" THEN [err |-> "", dset |-> args.dset]
        ELSE IF k \in {"ifgramStack"}
             THEN [err |-> "Exception: NO input dataset", dset |-> args.dset]
        ELSE IF k = "timeseries"
             THEN [err |-> "", dset |-> h.date_list[Len(h.date_list)]]
        ELSE [err |-> "", dset |-> args.dset]

\* the default dset of cmd_line_parse: [err, dset]
DefaultDset(args, h) ==
    LET k == h.atr["FILE_TYPE"][2]
    IN  IF args.dset # "" THEN [err |-> "", dset |-> args.dset]
        ELSE IF k \in {"ifgramStack", "HDFEOS"}
             THEN [err |-> "Exception: NO input dataset", dset |-> args.dset]
        ELSE IF k = "timeseries"
             THEN [err |-> "", dset |-> h.date_list[Len(h.date_list)]]
        ELSE [err |-> "", dset |-> args.dset]

cmd_line_parse ==
    /\ pc = "start"
    /\ \E r \in {DefaultDset(argv, h5)} :
           /\ err' = r.err
           /\ pc' = IF r.err = "" THEN "parsed" ELSE "failed"
           /\ inps' = [inps EXCEPT !.dset = r.dset]
    /\ UNCHANGED <<h5, argv, data0, data, atr, atr_in, out_file, dates,
                   ref_used, reads, written>>

\* ----------------------------------------------------------------- read_data
\* the outcome of read_data: an exception, or the locals it returns / leaves
Fail(e, rd) ==
    [err |-> e, data0 |-> NoData, data |-> NoData, atr |-> EmptyMap,
     outfile |-> "", dates |-> <<>>, ref_used |-> <<>>, reads |-> rd]
Done(d0, d, a, o, ds, ru, rd) ==
    [err |-> "", data0 |-> d0, data |-> d, atr |-> a,
     outfile |-> o, dates |-> ds, ref_used |-> ru, reads |-> rd]

\* change reference pixel: atr['REF_Y'], atr['REF_X'] = inps.ref_yx
ChangeRefPixel(a, ref_yx) ==
    IF ref_yx # NoRef
    THEN Put(Put(a, "REF_Y", Num(ref_yx[1])), "REF_X", Num(ref_yx[2]))
    ELSE a

\* mutant: the reference pixel is never subtracted
ApplyRefYX_skip(d, ref_yx) == d

\* if inps.ref_yx: data -= data[inps.ref_yx[0], inps.ref_yx[1]]
ApplyRefYX(d, ref_yx) == IF ref_yx # NoRef THEN RefSubtract(d, ref_yx) ELSE d

\* atr['DATE'] = date1[2:8]; atr['DATE12'] = '{}-{}'.format(date1[2:8], date2[2:8])
DateFields(a, date1, date2) ==
    Put(Put(a, "DATE", Txt(Slice(date1, 2, 8))),
        "DATE12", Txt(Slice(date1, 2, 8) \o "-" \o Slice(date2, 2, 8)))

\* '{}{}'.format(os.path.splitext(inps.file)[0], atr['FILE_TYPE'])
BasenameOutfile(i, a) ==
    IF i.outfile = "" THEN SplitExtRoot(i.file) \o a["FILE_TYPE"][2] ELSE i.outfile

\* the geo_ prefix of the timeseries and ifgramStack branches
GeoPrefix(i, name) == IF StartsWith(i.file, "geo_") THEN "geo_" \o name ELSE name

\* k == 'velocity'
ReadVelocity(i, a, h) ==
    LET r  == read(h, "")
        d0 == Times(r.data, Range2Phase(h.atr))
        a2 == Put(Put(a, "FILE_TYPE", Txt(".unw")), "UNIT", Txt("radian"))
    IN  IF ~r.ok THEN Fail("read: no such dataset", <<"">>)
        ELSE Done(d0, ApplyRefYX(d0, i.ref_yx), a2, BasenameOutfile(i, a2),
                  <<>>, <<>>, <<"">>)

\* k == 'timeseries': date1 and date2, [err, date1, date2]
TimeseriesDates(dset, a) ==
    LET parts == yyyymmddList(Split(dset, "_"))
    IN  IF Contains(dset, "_")
        THEN IF Len(parts) = 2
             THEN [err |-> "", date1 |-> parts[1], date2 |-> parts[2]]
             ELSE [err |-> "ValueError: unpack", date1 |-> "", date2 |-> ""]
        ELSE IF "REF_DATE" \in DOMAIN a
             THEN [err |-> "", date1 |-> a["REF_DATE"][2], date2 |-> yyyymmdd(dset)]
             ELSE [err |-> "KeyError: REF_DATE", date1 |-> "", date2 |-> ""]

\* k == 'timeseries': data = read(date2); data -= read(date1)
TimeseriesDiff(r1, r2) == Minus(r2, r1)

\* k == 'timeseries': output filename
TimeseriesOutfile(i, date1, date2) ==
    IF i.outfile = "" THEN GeoPrefix(i, date1 \o "_" \o date2 \o ".unw")
    ELSE i.outfile

ReadTimeseries(i, a, h) ==
    LET dd == TimeseriesDates(i.dset, a)
        r2 == read(h, dd.date2)
        r1 == read(h, dd.date1)
        d0 == Times(TimeseriesDiff(r1.data, r2.data), Range2Phase(h.atr))
        a2 == Put(Put(DateFields(a, dd.date1, dd.date2),
                      "FILE_TYPE", Txt(".unw")), "UNIT", Txt("radian"))
    IN  IF dd.err # "" THEN Fail(dd.err, <<>>)
        ELSE IF ~r2.ok THEN Fail("read: no such dataset", <<dd.date2>>)
        ELSE IF ~r1.ok THEN Fail("read: no such dataset", <<dd.date2, dd.date1>>)
        ELSE Done(d0, ApplyRefYX(d0, i.ref_yx), a2,
                  TimeseriesOutfile(i, dd.date1, dd.date2),
                  <<dd.date1, dd.date2>>, <<>>, <<dd.date2, dd.date1>>)

\* mutant: the default pair ends at the second stored epoch, not the last
HdfeosDates_second(dset, a, h) ==
    LET pieces == Split(dset, "-")
        dname  == pieces[1]
        suffix == pieces[2]
        parts  == yyyymmddList(Split(suffix, "_"))
    IN  IF dname = "displacement"
        THEN IF Contains(dset, "-")
             THEN IF Contains(suffix, "_")
                  THEN IF Len(parts) = 2
                       THEN [err |-> "", date1 |-> parts[1], date2 |-> parts[2]]
                       ELSE [err |-> "ValueError: unpack", date1 |-> "", date2 |-> ""]
                  ELSE IF "REF_DATE" \in DOMAIN a
                       THEN [err |-> "", date1 |-> a["REF_DATE"][2],
                             date2 |-> yyyymmdd(suffix)]
                       ELSE [err |-> "KeyError: REF_DATE", date1 |-> "", date2 |-> ""]
             ELSE [err |-> "ValueError: No '-' in input dataset",
                   date1 |-> "", date2 |-> ""]
        ELSE [err |-> "", date1 |-> h.date_list[1], date2 |-> h.date_list[2]]

\* k == 'HDFEOS': date1 and date2, [err, date1, date2]
HdfeosDates(dset, a, h) ==
    LET pieces == Split(dset, "-")
        dname  == pieces[1]
        suffix == pieces[2]
        parts  == yyyymmddList(Split(suffix, "_"))
    IN  IF dname = "displacement"
        THEN IF Contains(dset, "-")
             THEN IF Contains(suffix, "_")
                  THEN IF Len(parts) = 2
                       THEN [err |-> "", date1 |-> parts[1], date2 |-> parts[2]]
                       ELSE [err |-> "ValueError: unpack", date1 |-> "", date2 |-> ""]
                  ELSE IF "REF_DATE" \in DOMAIN a
                       THEN [err |-> "", date1 |-> a["REF_DATE"][2],
                             date2 |-> yyyymmdd(suffix)]
                       ELSE [err |-> "KeyError: REF_DATE", date1 |-> "", date2 |-> ""]
             ELSE [err |-> "ValueError: No '-' in input dataset",
                   date1 |-> "", date2 |-> ""]
        ELSE [err |-> "", date1 |-> h.date_list[1],
              date2 |-> h.date_list[Len(h.date_list)]]

\* k == 'HDFEOS': data = read(slice_name1); data -= read(slice_name2)
HdfeosDiff(r1, r2) == Minus(r1, r2)

\* mutant: 'coherence' is matched case-sensitively
HdfeosKind_caseSensitive(a, dname) ==
    IF dname = "displacement"
    THEN [err |-> "", atr |-> Put(Put(a, "FILE_TYPE", Txt(".unw")), "UNIT", Txt("radian"))]
    ELSE IF Contains(dname, "coherence")
    THEN [err |-> "", atr |-> Put(Put(a, "FILE_TYPE", Txt(".cor")), "UNIT", Txt("1"))]
    ELSE IF dname = "height"
    THEN [err |-> "", atr |-> Put(Put(a, "FILE_TYPE", Txt(".dem")), "DATA_TYPE", Txt("int16"))]
    ELSE [err |-> "ValueError: unrecognized input dataset type", atr |-> a]

\* k == 'HDFEOS': FILE_TYPE, UNIT and DATA_TYPE from dname, [err, atr]
HdfeosKind(a, dname) ==
    IF dname = "displacement"
    THEN [err |-> "", atr |-> Put(Put(a, "FILE_TYPE", Txt(".unw")), "UNIT", Txt("radian"))]
    ELSE IF Contains(Lower(dname), "coherence")
    THEN [err |-> "", atr |-> Put(Put(a, "FILE_TYPE", Txt(".cor")), "UNIT", Txt("1"))]
    ELSE IF dname = "height"
    THEN [err |-> "", atr |-> Put(Put(a, "FILE_TYPE", Txt(".dem")), "DATA_TYPE", Txt("int16"))]
    ELSE [err |-> "ValueError: unrecognized input dataset type", atr |-> a]

\* mutant: the HDFEOS name gets the geo_ prefix too
HdfeosOutfile_geo(i, date12, a) ==
    IF i.outfile = "" THEN GeoPrefix(i, date12 \o a["FILE_TYPE"][2]) ELSE i.outfile

\* k == 'HDFEOS': output filename
HdfeosOutfile(i, date12, a) ==
    IF i.outfile = "" THEN date12 \o a["FILE_TYPE"][2] ELSE i.outfile

ReadHDFEOS(i, a, h) ==
    LET dname  == Split(i.dset, "-")[1]
        dd     == HdfeosDates(i.dset, a, h)
        date12 == dd.date1 \o "_" \o dd.date2
        isDisp == Contains(i.dset, "displacement")
        m1     == check_dataset_input(h.slice_list, dname \o "-" \o dd.date1)
        m2     == check_dataset_input(h.slice_list, dname \o "-" \o dd.date2)
        m      == check_dataset_input(h.slice_list, i.dset)
        rd     == IF isDisp THEN <<m1[1], m2[1]>> ELSE <<m[1]>>
        r1     == read(h, rd[1])
        r2     == read(h, rd[2])
        d0     == IF isDisp
                  THEN Times(HdfeosDiff(r1.data, r2.data), Range2Phase(h.atr))
                  ELSE r1.data
        d      == IF isDisp THEN ApplyRefYX(d0, i.ref_yx) ELSE d0
        kind   == HdfeosKind(DateFields(a, dd.date1, dd.date2), dname)
    IN  IF dd.err # "" THEN Fail(dd.err, <<>>)
        ELSE IF (IF isDisp THEN m1 = <<>> \/ m2 = <<>> ELSE m = <<>>)
             THEN Fail("IndexError: check_dataset_input", <<>>)
        ELSE IF kind.err # "" THEN Fail(kind.err, rd)
        ELSE Done(d0, d, kind.atr, HdfeosOutfile(i, date12, kind.atr),
                  <<dd.date1, dd.date2>>, <<>>, rd)

\* mutant: the recorded reference pixel is reported but never subtracted
IfgramReference_none(d, dname, a) ==
    IF StartsWith(dname, "unwrapPhase") /\ "REF_X" \in DOMAIN a
    THEN [data |-> d, ref_used |-> <<ToInt(a["REF_Y"]), ToInt(a["REF_X"])>>]
    ELSE [data |-> d, ref_used |-> <<>>]

\* k == 'ifgramStack': the reference correction of an unwrapPhase slice,
\* [data, ref_used]
IfgramReference(d, dname, a) ==
    IF StartsWith(dname, "unwrapPhase") /\ "REF_X" \in DOMAIN a
    THEN LET yx == <<ToInt(a["REF_Y"]), ToInt(a["REF_X"])>>
         IN  [data |-> RefSubtract(d, yx), ref_used |-> yx]
    ELSE [data |-> d, ref_used |-> <<>>]

\* k == 'ifgramStack': FILE_TYPE and UNIT from dname, [err, atr]
IfgramKind(a, dname) ==
    IF StartsWith(dname, "unwrapPhase")
    THEN [err |-> "", atr |-> Put(Put(a, "FILE_TYPE", Txt(".unw")), "UNIT", Txt("radian"))]
    ELSE IF dname = "coherence"
    THEN [err |-> "", atr |-> Put(Put(a, "FILE_TYPE", Txt(".cor")), "UNIT", Txt("1"))]
    ELSE IF dname = "wrapPhase"
    THEN [err |-> "", atr |-> Put(Put(a, "FILE_TYPE", Txt(".int")), "UNIT", Txt("radian"))]
    ELSE [err |-> "ValueError: unrecognized dataset type", atr |-> a]

\* k == 'ifgramStack': output filename
IfgramOutfile(i, date12, a) ==
    IF i.outfile = "" THEN GeoPrefix(i, date12 \o a["FILE_TYPE"][2]) ELSE i.outfile

ReadIfgramStack(i, a, h) ==
    LET pieces == Split(i.dset, "-")
        dname  == pieces[1]
        date12 == pieces[2]
        ds     == Split(date12, "_")
        r      == read(h, i.dset)
        ref    == IfgramReference(r.data, dname, a)
        kind   == IfgramKind(DateFields(a, ds[1], ds[2]), dname)
    IN  IF Len(pieces) # 2 \/ Len(ds) # 2 THEN Fail("ValueError: unpack", <<>>)
        ELSE IF ~r.ok THEN Fail("read: no such dataset", <<i.dset>>)
        ELSE IF kind.err # "" THEN Fail(kind.err, <<i.dset>>)
        ELSE Done(r.data, ref.data, kind.atr, IfgramOutfile(i, date12, kind.atr),
                  <<ds[1], ds[2]>>, ref.ref_used, <<i.dset>>)

\* the generic branch: FILE_TYPE, UNIT, DATA_TYPE and whether the file is
\* read a second time, [atr, again]
GenericKind(a, k, dset) ==
    IF Contains(Lower(k), "coherence")
    THEN [atr |-> Put(a, "FILE_TYPE", Txt(".cor")), again |-> TRUE]
    ELSE IF k = "mask"
    THEN [atr |-> Put(Put(a, "FILE_TYPE", Txt(".msk")), "DATA_TYPE", Txt("byte")),
          again |-> TRUE]
    ELSE IF k = "geometry" /\ dset = "height"
    THEN IF "Y_FIRST" \in DOMAIN a
         THEN [atr |-> Put(Put(Put(a, "FILE_TYPE", Txt(".dem")),
                               "DATA_TYPE", Txt("int16")), "UNIT", Txt("m")),
               again |-> TRUE]
         ELSE [atr |-> Put(Put(a, "FILE_TYPE", Txt(".hgt")), "UNIT", Txt("m")),
               again |-> FALSE]
    ELSE [atr |-> Put(a, "FILE_TYPE", Txt(".unw")), again |-> FALSE]

ReadGeneric(i, a, h) ==
    LET k    == a["FILE_TYPE"][2]
        r    == read(h, i.dset)
        kind == GenericKind(a, k, i.dset)
        r0   == read(h, "")
        d    == IF kind.again THEN r0.data ELSE r.data
        rd   == IF kind.again THEN <<i.dset, "">> ELSE <<i.dset>>
    IN  IF ~r.ok THEN Fail("read: no such dataset", <<i.dset>>)
        ELSE Done(d, d, kind.atr, BasenameOutfile(i, kind.atr), <<>>, <<>>, rd)

\* read_data(inps): (data, atr, inps.outfile) or an exception
ReadData(i, h) ==
    LET a == ChangeRefPixel(h.atr, i.ref_yx)
        k == a["FILE_TYPE"][2]
        r == CASE k = "velocity"    -> ReadVelocity(i, a, h)
               [] k = "timeseries"  -> ReadTimeseries(i, a, h)
               [] k = "HDFEOS"      -> ReadHDFEOS(i, a, h)
               [] k = "ifgramStack" -> ReadIfgramStack(i, a, h)
               [] OTHER             -> ReadGeneric(i, a, h)
    IN  IF "WAVELENGTH" \notin DOMAIN h.atr THEN Fail("KeyError: WAVELENGTH", <<>>)
        ELSE IF r.err # "" THEN r
        ELSE [r EXCEPT !.atr = Put(r.atr, "PROCESSOR", Txt("roipac"))]

read_data ==
    /\ pc = "parsed"
    /\ \E r \in {ReadData(inps, h5)} :
           /\ err' = r.err
           /\ pc' = IF r.err = "" THEN "read" ELSE "failed"
           /\ data0' = r.data0
           /\ data' = r.data
           /\ atr' = r.atr
           /\ out_file' = r.outfile
           /\ inps' = IF r.err = "" THEN [inps EXCEPT !.outfile = r.outfile] ELSE inps
           /\ dates' = r.dates
           /\ ref_used' = r.ref_used
           /\ reads' = r.reads
    /\ UNCHANGED <<h5, argv, atr_in, written>>

\* ------------------------------------------------------ clean_metadata4roipac
\* mutant: the keys that are not upper-case are kept
clean_metadata4roipac_keepall(atr0) ==
    LET str     == [key \in DOMAIN atr0 |-> Str(atr0[key])]
        dropped == {"width", "Width", "samples", "length", "lines"}
        kept    == DOMAIN str \ dropped
        upper   == [key \in kept |-> str[key]]
    IN  IF "LENGTH" \in kept
        THEN [err |-> "", atr |-> Put(upper, "FILE_LENGTH", upper["LENGTH"])]
        ELSE [err |-> "KeyError: LENGTH", atr |-> upper]

\* clean_metadata4roipac(atr_in): [err, atr]
clean_metadata4roipac(atr0) ==
    LET str     == [key \in DOMAIN atr0 |-> Str(atr0[key])]
        dropped == {"width", "Width", "samples", "length", "lines"}
        kept    == {key \in DOMAIN str \ dropped : IsUpper(key)}
        upper   == [key \in kept |-> str[key]]
    IN  IF "LENGTH" \in kept
        THEN [err |-> "", atr |-> Put(upper, "FILE_LENGTH", upper["LENGTH"])]
        ELSE [err |-> "KeyError: LENGTH", atr |-> upper]

clean_metadata ==
    /\ pc = "read"
    /\ \E r \in {clean_metadata4roipac(atr)} :
           /\ err' = r.err
           /\ pc' = IF r.err = "" THEN "cleaned" ELSE "failed"
           /\ atr' = r.atr
    /\ atr_in' = atr
    /\ UNCHANGED <<h5, argv, inps, data0, data, out_file, dates, ref_used,
                   reads, written>>

\* ------------------------------------------------------------ writefile.write
\* mutant: the write is also reached after an exception
WriteReady_always == pc \in {"cleaned", "failed"}

\* main calls writefile.write once clean_metadata4roipac has returned
WriteReady == pc = "cleaned"

write ==
    /\ WriteReady
    /\ written' = Append(written, [data |-> data, out_file |-> out_file, metadata |-> atr])
    /\ pc' = "done"
    /\ UNCHANGED <<h5, argv, inps, err, data0, data, atr, atr_in, out_file,
                   dates, ref_used, reads>>

Next ==
    \/ cmd_line_parse
    \/ read_data
    \/ clean_metadata
    \/ write

Spec == Init /\ [][Next]_vars

\* ------------------------------------------- clean_metadata4roipac on its own
\* the attribute mappings handed to clean_metadata4roipac
CleanKeys ==
    {"LENGTH", "WIDTH", "FILE_TYPE", "X_FIRST", "width", "Width", "samples",
     "length", "lines", "Lines", "Ref_y", "12"}
LengthValues == {Txt("300"), Num(300)}
AttrMaps ==
    { [key \in keys |-> IF key = "LENGTH" THEN len ELSE Txt(key)] :
      keys \in SUBSET CleanKeys, len \in LengthValues }

InitClean ==
    /\ h5 = [atr |-> EmptyMap, date_list |-> <<>>, slice_list |-> <<>>,
             ra |-> Flat, rb |-> Flat]
    /\ argv = [file |-> "", dset |-> "", outfile |-> "", ref_yx |-> NoRef]
    /\ inps = argv
    /\ pc = "read"
    /\ err = ""
    /\ data0 = Flat
    /\ data = Flat
    /\ atr \in AttrMaps
    /\ atr_in = EmptyMap
    /\ out_file = ""
    /\ dates = <<>>
    /\ ref_used = <<>>
    /\ reads = <<>>
    /\ written = <<>>

NextClean == clean_metadata

SpecClean == InitClean /\ [][NextClean]_vars

\* ================================================================= the claims
Type == h5.atr["FILE_TYPE"][2]
Returned == pc \in {"read", "cleaned", "done"}
Terminal == pc \in {"done", "failed"}
Meta == written[1].metadata
TokenPieces == Split(inps.dset, "-")
TokenName == TokenPieces[1]
TokenEpochs == Split(TokenPieces[2], "_")
PairToken == Len(TokenPieces) = 2 /\ Len(TokenEpochs) = 2
StoredSlice(name) == RasterAt(h5, SliceIndex(h5, name))
ReadSlice(name) == IF name = "" THEN 1 ELSE SliceIndex(h5, name)
\* -4/WAVELENGTH for the wavelengths 1 and 2
PhaseFactor == IF h5.atr["WAVELENGTH"][2] = "1" THEN 0 - 4 ELSE 0 - 2
\* the 6-digit form of an epoch given with 6 or 8 digits
SixDigit(e) == IF Len(e) = 8 THEN SubSeq(e, 3, 8) ELSE e
StoredRef ==
    IF "REF_X" \in DOMAIN h5.atr
    THEN <<ToInt(h5.atr["REF_Y"]), ToInt(h5.atr["REF_X"])>>
    ELSE NoRef

\* C1: whenever read_data differences two epochs (timeseries, or HDFEOS
\* displacement), its raster before any reference subtraction is
\* (slice(date2) - slice(date1)) * range2phase at every pixel.
EpochSlice(e) ==
    IF Type = "timeseries" THEN StoredSlice(e) ELSE StoredSlice("displacement-" \o e)
C1_EpochDifference ==
    (Returned /\ (Type = "timeseries" \/ (Type = "HDFEOS" /\ TokenName = "displacement")))
    => \A p \in Pixels :
          data0[p] = (EpochSlice(dates[2])[p] - EpochSlice(dates[1])[p]) * PhaseFactor

\* C2 as stated: every HDFEOS request name-epoch1_epoch2 that converts has
\* DATE12 = epoch1[2:8] + '-' + epoch2[2:8] and DATE = epoch1[2:8], whatever the name.
C2_TokenDates ==
    (pc = "done" /\ Type = "HDFEOS" /\ PairToken)
    => /\ Meta["DATE12"] = Txt(Slice(TokenEpochs[1], 2, 8) \o "-" \o Slice(TokenEpochs[2], 2, 8))
       /\ Meta["DATE"] = Txt(Slice(TokenEpochs[1], 2, 8))

\* C2 amended: for the name displacement DATE12 and DATE are the 6-digit forms
\* of the token's epochs; for every other name they are the 6-digit forms of
\* the container's first and last stored epochs.
C2_DatesByName ==
    (pc = "done" /\ Type = "HDFEOS" /\ PairToken)
    => IF TokenName = "displacement"
       THEN /\ Meta["DATE12"] = Txt(SixDigit(TokenEpochs[1]) \o "-" \o SixDigit(TokenEpochs[2]))
            /\ Meta["DATE"] = Txt(SixDigit(TokenEpochs[1]))
       ELSE /\ Meta["DATE12"] = Txt(SubSeq(DateList[1], 3, 8) \o "-"
                                    \o SubSeq(DateList[NumEpochs], 3, 8))
            /\ Meta["DATE"] = Txt(SubSeq(DateList[1], 3, 8))
C2_Witness ==
    /\ pc = "done" /\ Type = "HDFEOS" /\ PairToken
    /\ TokenName # "displacement"
    /\ TokenEpochs[2] # DateList[NumEpochs]

\* C3 as stated: with a caller-supplied reference pixel every successful
\* conversion has REF_Y, REF_X = row, col and a raster that is zero there.
RefAttrs ==
    /\ Meta["REF_Y"] = Txt(ToString(argv.ref_yx[1]))
    /\ Meta["REF_X"] = Txt(ToString(argv.ref_yx[2]))
C3_ZeroAtCallerPixel ==
    (pc = "done" /\ argv.ref_yx # NoRef)
    => RefAttrs /\ written[1].data[argv.ref_yx] = 0

\* C3 amended: REF_Y, REF_X = row, col for every type; the raster is zero at
\* the pixel for velocity, timeseries, HDFEOS displacement and ifgramStack
\* unwrapPhase; every other product is written as stored.
Referenced ==
    \/ Type \in {"velocity", "timeseries"}
    \/ Type = "HDFEOS" /\ Contains(inps.dset, "displacement")
    \/ Type = "ifgramStack" /\ StartsWith(inps.dset, "unwrapPhase")
C3_ZeroWhereReferenced ==
    (pc = "done" /\ argv.ref_yx # NoRef)
    => /\ RefAttrs
       /\ Referenced => written[1].data[argv.ref_yx] = 0
       /\ ~Referenced =>
             written[1].data = RasterAt(h5, ReadSlice(reads[Len(reads)]))
C3_Witness ==
    /\ pc = "done" /\ argv.ref_yx # NoRef /\ ~Referenced
    /\ written[1].data[argv.ref_yx] # 0
    /\ StoredRef # NoRef /\ StoredRef # argv.ref_yx

\* C4 as stated: with LENGTH in the input, the cleaned mapping has no key with
\* a lower-case character, none of width / samples / length / lines in any
\* capitalisation, and FILE_LENGTH = the text of LENGTH.
NoLowerCaseKey ==
    \A key \in DOMAIN atr : \A n \in 1..Len(key) : ~Contains(LowerChars, CharAt(key, n))
FileLength ==
    /\ "FILE_LENGTH" \in DOMAIN atr
    /\ atr["FILE_LENGTH"] = Txt("300")
C4_NoGeometryKeys ==
    (pc # "read" /\ "LENGTH" \in DOMAIN atr_in)
    => /\ pc = "cleaned"
       /\ NoLowerCaseKey
       /\ \A key \in DOMAIN atr : Lower(key) \notin {"width", "samples", "length", "lines"}
       /\ FileLength

\* C4 amended: no key with a lower-case character, none of the five spellings
\* width, Width, samples, length, lines, FILE_LENGTH = the text of LENGTH; the
\* upper-case LENGTH and WIDTH are kept (LENGTH is copied, not renamed).
C4_CleanedKeys ==
    (pc # "read" /\ "LENGTH" \in DOMAIN atr_in)
    => /\ pc = "cleaned"
       /\ NoLowerCaseKey
       /\ DOMAIN atr \cap {"width", "Width", "samples", "length", "lines"} = {}
       /\ FileLength
       /\ atr["LENGTH"] = Txt("300")
       /\ "WIDTH" \in DOMAIN atr_in => "WIDTH" \in DOMAIN atr
       /\ \A key \in DOMAIN atr : atr[key][1] = "s"
C4_Witness ==
    /\ pc = "cleaned"
    /\ atr_in["LENGTH"] = Num(300)
    /\ {"WIDTH", "Width", "lines", "Lines", "Ref_y"} \subseteq DOMAIN atr_in

\* C5: without a token an HDFEOS or ifgramStack file fails with the
\* missing-input error before any read or write; a timeseries continues with
\* its last stored epoch.
C5_MissingToken ==
    (argv.dset = "" /\ pc # "start")
    => /\ Type \in {"HDFEOS", "ifgramStack"}
          => /\ pc = "failed" /\ err = "Exception: NO input dataset"
             /\ reads = <<>> /\ written = <<>>
       /\ Type = "timeseries"
          => /\ inps.dset = DateList[NumEpochs]
             /\ pc = "failed"
                => err \in {"KeyError: WAVELENGTH", "KeyError: REF_DATE", "KeyError: LENGTH"}
             /\ pc # "parsed" /\ err \notin {"KeyError: WAVELENGTH", "KeyError: REF_DATE"}
                => reads = <<DateList[NumEpochs], DateList[1]>>
C5_Witness ==
    /\ argv.dset = "" /\ Type = "timeseries" /\ pc = "done"
    /\ written[1].out_file = "20040101_" \o DateList[NumEpochs] \o ".unw"

\* C6 as stated: for HDFEOS and ifgramStack the name part of the token decides
\* FILE_TYPE / UNIT / DATA_TYPE, and every other name fails with the
\* unsupported-product error.
Unsupported ==
    err \in {"ValueError: unrecognized input dataset type",
             "ValueError: unrecognized dataset type"}
KindIs(type, unit) ==
    pc = "done" => Meta["FILE_TYPE"] = Txt(type) /\ Meta["UNIT"] = Txt(unit)
HdfeosKnown ==
    /\ TokenName = "displacement" => KindIs(".unw", "radian") /\ ~Unsupported
    /\ (TokenName # "displacement" /\ Contains(Lower(TokenName), "coherence"))
          => KindIs(".cor", "1") /\ ~Unsupported
    /\ TokenName = "height"
          => /\ ~Unsupported
             /\ pc = "done" => /\ Meta["FILE_TYPE"] = Txt(".dem")
                               /\ Meta["DATA_TYPE"] = Txt("int16")
HdfeosOther ==
    /\ TokenName # "displacement"
    /\ ~Contains(Lower(TokenName), "coherence")
    /\ TokenName # "height"
IfgramKnown ==
    /\ StartsWith(TokenName, "unwrapPhase") => KindIs(".unw", "radian") /\ ~Unsupported
    /\ TokenName = "coherence" => KindIs(".cor", "1") /\ ~Unsupported
    /\ TokenName = "wrapPhase" => KindIs(".int", "radian") /\ ~Unsupported
IfgramOther ==
    /\ ~StartsWith(TokenName, "unwrapPhase")
    /\ TokenName \notin {"coherence", "wrapPhase"}
C6_KindByName ==
    (Terminal /\ argv.dset # "")
    => /\ Type = "HDFEOS"
          => /\ HdfeosKnown
             /\ HdfeosOther => pc = "failed" /\ Unsupported
             /\ pc = "done" => Meta["FILE_TYPE"][2] \in {".unw", ".cor", ".dem"}
       /\ Type = "ifgramStack"
          => /\ IfgramKnown
             /\ IfgramOther => pc = "failed" /\ Unsupported
             /\ pc = "done" => Meta["FILE_TYPE"][2] \in {".unw", ".cor", ".int"}

\* C6 amended: as stated, except that another name fails with the
\* unsupported-product error only when read_data gets as far as classifying
\* the name: the container has WAVELENGTH and a stored slice matches the
\* token.  Otherwise it fails earlier, and when no stored slice matches, with
\* the lookup error before any read.
HasWavelength == "WAVELENGTH" \in DOMAIN h5.atr
Resolves == \E n \in 1..Len(h5.slice_list) : Contains(h5.slice_list[n], argv.dset)
C6_KindByNameOrLookup ==
    (Terminal /\ argv.dset # "")
    => /\ Type = "HDFEOS"
          => /\ HdfeosKnown
             /\ HdfeosOther
                => /\ pc = "failed"
                   /\ (HasWavelength /\ Resolves) => Unsupported
                   /\ (HasWavelength /\ ~Resolves)
                      => err = "IndexError: check_dataset_input" /\ reads = <<>>
             /\ pc = "done" => Meta["FILE_TYPE"][2] \in {".unw", ".cor", ".dem"}
       /\ Type = "ifgramStack"
          => /\ IfgramKnown
             /\ (IfgramOther /\ HasWavelength /\ PairToken /\ Resolves)
                => pc = "failed" /\ Unsupported
             /\ IfgramOther => pc = "failed"
             /\ pc = "done" => Meta["FILE_TYPE"][2] \in {".unw", ".cor", ".int"}
C6_Witness ==
    /\ pc = "failed" /\ Type = "HDFEOS" /\ argv.dset # "" /\ HdfeosOther
    /\ ~Resolves /\ err = "IndexError: check_dataset_input"

\* C7: the writer is called at most once, only after read_data and
\* clean_metadata4roipac have returned, and never in an invocation that fails.
C7_WriteLast ==
    /\ [][written' # written
            => /\ pc = "cleaned" /\ err = "" /\ written = <<>>
               /\ "FILE_LENGTH" \in DOMAIN atr /\ "PROCESSOR" \in DOMAIN atr
               /\ written' = <<[data |-> data, out_file |-> out_file, metadata |-> atr]>>]_vars
    /\ [](pc = "failed" => written = <<>>)
    /\ [](err # "" => pc = "failed")
C7_Witness ==
    /\ pc = "done" /\ Len(written) = 1 /\ reads # <<>>
    /\ "FILE_LENGTH" \in DOMAIN written[1].metadata

\* C8: the output file name is the caller's when given; otherwise the input
\* path with the FILE_TYPE tag as extension (velocity, generic types),
\* date1_date2 + tag with geo_ in front when the input name starts with geo_
\* (timeseries, ifgramStack), or date1_date2 + tag with no prefix (HDFEOS).
Tag == atr["FILE_TYPE"][2]
\* the input paths all end in .h5
Root == SubSeq(argv.file, 1, Len(argv.file) - 3)
Geo == IF StartsWith(argv.file, "geo_") THEN "geo_" ELSE ""
UnwrapRequest ==
    Returned /\ Type = "ifgramStack" /\ StartsWith(inps.dset, "unwrapPhase")
Slice0 == StoredSlice(inps.dset)
C9_StoredPixelFirst ==
    UnwrapRequest
    => /\ (StoredRef # NoRef /\ argv.ref_yx = NoRef)
          => data = [p \in Pixels |-> Slice0[p] - Slice0[StoredRef]]
       /\ (StoredRef # NoRef /\ argv.ref_yx # NoRef)
          => ref_used = StoredRef /\ data[argv.ref_yx] = 0
       /\ (StoredRef = NoRef /\ argv.ref_yx = NoRef)
          => data = Slice0 /\ ref_used = <<>>

\* C9 amended: with a caller override the recorded pixel is replaced before
\* the correction, which is applied once, at the caller's pixel; the raster is
\* the stored slice minus its value at the caller's pixel.
C9_CallerPixelOnly ==
    UnwrapRequest
    => /\ (StoredRef # NoRef /\ argv.ref_yx = NoRef)
          => /\ data = [p \in Pixels |-> Slice0[p] - Slice0[StoredRef]]
             /\ ref_used = StoredRef
       /\ argv.ref_yx # NoRef
          => /\ ref_used = argv.ref_yx
             /\ data = [p \in Pixels |-> Slice0[p] - Slice0[argv.ref_yx]]
       /\ (StoredRef = NoRef /\ argv.ref_yx = NoRef)
          => data = Slice0 /\ ref_used = <<>>
C9_Witness ==
    /\ UnwrapRequest /\ pc = "done"
    /\ StoredRef # NoRef /\ argv.ref_yx # NoRef /\ argv.ref_yx # StoredRef
    /\ Slice0[argv.ref_yx] # 0
    /\ written[1].data[argv.ref_yx] = 0

\* C10: no slice is read more than once in an invocation: read_data issues
\* one read for velocity, ifgramStack, HDFEOS single slices and every generic
\* type, and two for a difference of two distinct epochs.
Differenced ==
    \/ Type = "timeseries"
    \/ Type = "HDFEOS" /\ Contains(inps.dset, "displacement")
C10_ReadOnce ==
    Returned
    => /\ \A m, n \in 1..Len(reads) :
             (m # n /\ ~(Differenced /\ dates[1] = dates[2]))
             => ReadSlice(reads[m]) # ReadSlice(reads[n])
       /\ Len(reads) = IF Differenced THEN 2 ELSE 1
====
